---- MODULE Spec2Model ----
(***************************************************************************)
(* Model of src/server.py: the process-wide model session, the loader,     *)
(* the startup hook, GET /health and the two generation endpoints.         *)
(*                                                                         *)
(* Conventions.  A Python Optional is a set with at most one element:      *)
(* None is {} and a value v is {v}.  A text is a sequence of lines.        *)
(* Floats are in tenths (temperature 0.7 is 7, top_p 1.0 is 10).  A token  *)
(* sequence is run-length encoded: a sequence of runs [kind, n].           *)
(* Every handler is one atomic step: the handlers are synchronous code     *)
(* under a single worker, so no other handler runs in the middle of one.   *)
(***************************************************************************)
EXTENDS Integers, Sequences, FiniteSets, TLC

VARIABLES args, cuda, started, model, tokenizer, device, model_id_loaded,
          weight_loads, gen_called, gen_past_load, request, resp, gen

vars == <<args, cuda, started, model, tokenizer, device, model_id_loaded,
          weight_loads, gen_called, gen_past_load, request, resp, gen>>

session == <<model, tokenizer, device, model_id_loaded>>

None == {}

HARDCODED_MODEL_ID == "ruslanmv/Medical-Llama3-v2"

CHAT_SYSTEM_PROMPT == <<"You are a knowledgeable Medical AI Assistant.">>

EMERGENCY_SYSTEM_PROMPT == <<"You are an Emergency First Aid Advisor.">>

\* max_length of the tokenizer call
MaxLength == 4096

\* ---------------------------------------------------------------- bounds
MaxHistory == 2

MaxNewTokens == 2

\* ---------------------------------------------------------------- inputs
Precisions == {"4-bit", "16-bit", "32-bit"}

CacheDirs == {None, {"/cache"}}

\* argparse: --precision, --cache-dir, --preload
CliArgs == [precision : Precisions, cache_dir : CacheDirs, preload : BOOLEAN]

\* what the hub / the libraries do to one load attempt
LoadOutcomes == {"ok", "tokenizer_error", "pad_token_error", "model_error"}

\* ------------------------------------------------------------ the loader
\* the configuration of one load, without the downgrade of 4-bit on the CPU
LoadConfigNoFallback(precision, cache_dir) ==
  LET dev == IF cuda THEN "cuda" ELSE "cpu"
  IN  [device |-> dev,
       precision |-> precision,
       cache_dir |-> cache_dir,
       trust_remote_code |-> TRUE,
       quantization_config |->
          IF precision = "4-bit" /\ dev = "cuda" THEN {"load_in_4bit/nf4/float16"} ELSE None,
       torch_dtype |->
          IF precision = "4-bit" /\ dev = "cuda" THEN None
          ELSE IF precision = "16-bit" THEN {"float16"} ELSE None]

\* model_kwargs and the (possibly downgraded) precision of one load
LoadConfig(precision, cache_dir) ==
  LET dev  == IF cuda THEN "cuda" ELSE "cpu"
      prec == IF ~cuda /\ precision = "4-bit" THEN "16-bit" ELSE precision
  IN  [device |-> dev,
       precision |-> prec,
       cache_dir |-> cache_dir,
       trust_remote_code |-> TRUE,
       quantization_config |->
          IF prec = "4-bit" /\ dev = "cuda" THEN {"load_in_4bit/nf4/float16"} ELSE None,
       torch_dtype |->
          IF prec = "4-bit" /\ dev = "cuda" THEN None
          ELSE IF prec = "16-bit" THEN {"float16"} ELSE None]

\* the early return of load_model_and_tokenizer, with every reload
AlreadyLoadedNever == FALSE

\* the early return of load_model_and_tokenizer
AlreadyLoaded == model # None /\ model_id_loaded = {HARDCODED_MODEL_ID}

\* load_model_and_tokenizer(precision, cache_dir) under one outcome of the
\* libraries: the session after the call, whether it raised, and whether
\* the tokenizer / the weights were loaded by this call.
load_model_and_tokenizer(precision, cache_dir, outcome) ==
  IF AlreadyLoaded
  THEN [model |-> model, tokenizer |-> tokenizer, device |-> device,
        model_id_loaded |-> model_id_loaded, raised |-> FALSE,
        tokenizer_loaded |-> FALSE, weights_loaded |-> FALSE]
  ELSE
    LET cfg  == LoadConfig(precision, cache_dir)
        \* clearing the previous model
        tok0 == IF model # None THEN None ELSE tokenizer
        newtok == {[model_id |-> HARDCODED_MODEL_ID, cache_dir |-> cache_dir]}
        newmodel == {[model_id |-> HARDCODED_MODEL_ID, precision |-> cfg.precision,
                      quantization_config |-> cfg.quantization_config,
                      torch_dtype |-> cfg.torch_dtype,
                      cache_dir |-> cfg.cache_dir]}
    IN  CASE outcome = "tokenizer_error" ->
               [model |-> None, tokenizer |-> tok0, device |-> {cfg.device},
                model_id_loaded |-> IF model # None THEN None ELSE model_id_loaded,
                raised |-> TRUE, tokenizer_loaded |-> FALSE, weights_loaded |-> FALSE]
          [] outcome = "pad_token_error" ->
               [model |-> None, tokenizer |-> newtok, device |-> {cfg.device},
                model_id_loaded |-> IF model # None THEN None ELSE model_id_loaded,
                raised |-> TRUE, tokenizer_loaded |-> TRUE, weights_loaded |-> FALSE]
          [] outcome = "model_error" ->
               [model |-> None, tokenizer |-> None, device |-> {cfg.device},
                model_id_loaded |-> None,
                raised |-> TRUE, tokenizer_loaded |-> TRUE, weights_loaded |-> FALSE]
          [] OTHER ->
               [model |-> newmodel, tokenizer |-> newtok, device |-> {cfg.device},
                model_id_loaded |-> {HARDCODED_MODEL_ID},
                raised |-> FALSE, tokenizer_loaded |-> TRUE, weights_loaded |-> TRUE]

\* the session and the load counter after a call of the loader
ApplyLoad(r) ==
  /\ model' = r.model
  /\ tokenizer' = r.tokenizer
  /\ device' = r.device
  /\ model_id_loaded' = r.model_id_loaded
  /\ weight_loads' = IF r.weights_loaded THEN weight_loads + 1 ELSE weight_loads

\* nothing generated: the value of gen outside a generation request
NoGen ==
  [load_called |-> FALSE, failure |-> "none", profile_parts |-> <<>>,
   messages |-> <<>>, prompt_tokens |-> None, input_length |-> None,
   generation_config |-> None, generate_called |-> FALSE, outputs |-> <<>>]

\* no request body being handled
NoRequest == [prompt |-> None]

\* no response on its way to a client
Idle == [op |-> "none", status |-> 0, body |-> [detail |-> ""]]

\* ------------------------------------------------------------- startup
\* the preload of startup_event swallows the exception of a failed load
startup_event ==
  /\ ~started
  /\ started' = TRUE
  /\ IF args.preload
     THEN \E outcome \in LoadOutcomes :
            ApplyLoad(load_model_and_tokenizer(args.precision, args.cache_dir, outcome))
     ELSE UNCHANGED <<session, weight_loads>>
  /\ UNCHANGED <<args, cuda, gen_called, gen_past_load, request, resp, gen>>

\* the server hands the response to the client and the handler's locals die
deliver ==
  /\ resp # Idle
  /\ resp' = Idle
  /\ request' = NoRequest
  /\ gen' = NoGen
  /\ UNCHANGED <<args, cuda, started, session, weight_loads, gen_called, gen_past_load>>

\* ---------------------------------------------------------- GET /health
\* the test of health_check, with or in place of and
HealthLoadedEither == model # None \/ tokenizer # None

\* the test of health_check
HealthLoaded == model # None /\ tokenizer # None

health_check ==
  /\ started
  /\ resp = Idle
  /\ resp' = [op |-> "health", status |-> 200,
              body |-> [status |-> "healthy",
                        model_status |-> IF HealthLoaded THEN "loaded" ELSE "not loaded",
                        model_id |-> IF HealthLoaded THEN model_id_loaded ELSE {"None"}]]
  /\ gen' = NoGen
  /\ UNCHANGED <<args, cuda, started, session, weight_loads, gen_called, gen_past_load,
                 request>>

\* ------------------------------------------------------ request bodies
\* UserProfile: nine optional fields
ProfileFields == {"age", "gender", "conditions", "allergies", "medications",
                  "name", "weight_kg", "height_cm", "blood_type"}

\* ChatMessage
ChatMessages == [role : {"user", "assistant"}, content : {"earlier"}]

Histories == UNION {[1..n -> ChatMessages] : n \in 0..MaxHistory}

\* Python truthiness of profile_data.get(field)
Truthy(field, opt) ==
  /\ opt # None
  /\ \A v \in opt :
       CASE field \in {"age", "weight_kg", "height_cm"} -> v # 0
         [] field \in {"gender", "name", "blood_type"} -> v # ""
         [] OTHER -> v # <<>>

\* ', '.join(list)
RECURSIVE Join(_)
Join(list) ==
  IF list = <<>> THEN ""
  ELSE IF Len(list) = 1 THEN list[1]
  ELSE list[1] \o ", " \o Join(Tail(list))

TheValue(opt) == CHOOSE v \in opt : TRUE

\* the fields _generate_response renders, with the three it leaves out
RenderedFieldsAll ==
  <<"age", "gender", "conditions", "allergies", "medications",
    "weight_kg", "height_cm", "blood_type">>

\* the fields _generate_response renders, in its order
RenderedFields == <<"age", "gender", "conditions", "allergies", "medications">>

\* the bulleted line of one field
ProfileLine(field, v) ==
  CASE field = "age" -> "- Age: " \o ToString(v)
    [] field = "gender" -> "- Gender: " \o v
    [] field = "conditions" -> "- Known Conditions: " \o Join(v)
    [] field = "allergies" -> "- Known Allergies: " \o Join(v)
    [] field = "medications" -> "- Current Medications: " \o Join(v)
    [] field = "weight_kg" -> "- Weight: " \o ToString(v) \o " kg"
    [] field = "height_cm" -> "- Height: " \o ToString(v) \o " cm"
    [] OTHER -> "- Blood Type: " \o v

RECURSIVE PartsOf(_, _)
PartsOf(profile, fields) ==
  IF fields = <<>> THEN <<>>
  ELSE LET f == Head(fields)
       IN  (IF Truthy(f, profile[f]) THEN <<ProfileLine(f, TheValue(profile[f]))>> ELSE <<>>)
           \o PartsOf(profile, Tail(fields))

\* profile_parts of _generate_response; profile_data is None or a dict
ProfileParts(profile_data) ==
  IF profile_data = None THEN <<>>
  ELSE PartsOf(TheValue(profile_data), RenderedFields)

\* system_prompt of _generate_response, as lines
SystemPrompt(system_prompt_base, profile_data) ==
  LET parts == ProfileParts(profile_data)
  IN  IF parts # <<>>
      THEN <<"User Profile:">> \o parts \o <<"">> \o system_prompt_base
      ELSE system_prompt_base

\* [msg.model_dump() for msg in request.history]
HistoryDump(history) ==
  [i \in 1..Len(history) |-> [role |-> history[i].role, content |-> history[i].content]]

\* the messages list, without the history
MessagesNoHistory(system_prompt, history_list, user_content) ==
  <<[role |-> "system", content |-> system_prompt]>>
  \o <<[role |-> "user", content |-> user_content]>>

\* the messages list handed to apply_chat_template
Messages(system_prompt, history_list, user_content) ==
  <<[role |-> "system", content |-> system_prompt]>>
  \o history_list
  \o <<[role |-> "user", content |-> user_content]>>

\* ------------------------------------------------ generation parameters
\* the comparisons of the policy test raise TypeError on a null operand
ConfigTypeError(gen_params) ==
  \/ gen_params.temperature = None
  \/ (TheValue(gen_params.temperature) <= 0 /\ gen_params.top_p = None)

\* the policy test, on the temperature alone
UseGreedyTemperatureOnly(gen_params) ==
  TheValue(gen_params.temperature) <= 0

\* temperature <= 0.0 and top_p >= 1.0
UseGreedy(gen_params) ==
  /\ TheValue(gen_params.temperature) <= 0
  /\ TheValue(gen_params.top_p) >= 10

\* generation_config, after the pops of the greedy branch
GenerationConfig(gen_params) ==
  IF UseGreedy(gen_params)
  THEN [max_new_tokens |-> gen_params.max_new_tokens, eos_token_id |-> "eos",
        pad_token_id |-> "eos", use_cache |-> TRUE, do_sample |-> FALSE]
  ELSE [max_new_tokens |-> gen_params.max_new_tokens, eos_token_id |-> "eos",
        pad_token_id |-> "eos", use_cache |-> TRUE,
        temperature |-> gen_params.temperature, top_p |-> gen_params.top_p,
        do_sample |-> TRUE]

\* ------------------------------------------------------------ tokens
\* the tokenizer call without truncation
InputLengthUntruncated(ntok) == ntok

\* input_ids.shape[1] under truncation=True, max_length=4096
InputLength(ntok) == IF ntok > MaxLength THEN MaxLength ELSE ntok

\* greedy decoding: the one continuation of the input
GreedyContinuation(input_length, max_new_tokens) ==
  [kind |-> "argmax", n |-> max_new_tokens]

\* model.generate: the input followed by the new tokens, and an
\* end-of-sequence token when generation stopped before the budget
Generate(input_length, config, sample) ==
  LET max_new == TheValue(config.max_new_tokens)
      new == IF config.do_sample THEN sample
             ELSE GreedyContinuation(input_length, max_new)
  IN  <<[kind |-> "input", n |-> input_length], new>>
      \o (IF new.n < max_new THEN <<[kind |-> "eos", n |-> 1]>> ELSE <<>>)

\* tokens[k:] on a run-length encoded sequence
RECURSIVE DropTokens(_, _)
DropTokens(runs, k) ==
  IF runs = <<>> \/ k = 0 THEN runs
  ELSE IF Head(runs).n <= k THEN DropTokens(Tail(runs), k - Head(runs).n)
  ELSE <<[kind |-> Head(runs).kind, n |-> Head(runs).n - k]>> \o Tail(runs)

\* outputs[0][input_length:]
NewTokens(outputs, input_length) == DropTokens(outputs, input_length)

IsText(run) == run.kind # "eos"

\* tokenizer.decode(ids, skip_special_tokens=True)
Decode(runs) == SelectSeq(runs, IsText)

\* ---------------------------------------------------- _generate_response
\* where the libraries fail one request, the token count of the formatted
\* prompt, and the continuation sampling draws
FailStages == {"none", "template", "tokenize", "generate", "decode"}

TokenCounts == {12, MaxLength, MaxLength + 1}

Samples == [kind : {"sample_a", "sample_b"}, n : 1..MaxNewTokens]

Envs == [load : LoadOutcomes, fail : FailStages, ntok : TokenCounts, sample : Samples]

Env(l, f, n, s) == [load |-> l, fail |-> f, ntok |-> n, sample |-> s]

DefaultSample == [kind |-> "sample_a", n |-> 1]

\* the continuations generate can return under gen_params
SamplesFor(gen_params) ==
  IF UseGreedy(gen_params) THEN {DefaultSample}
  ELSE {s \in Samples : s.n <= TheValue(gen_params.max_new_tokens)}

\* one environment for each distinct course of a request: the load outcome
\* counts only when a load is attempted, the token count only when the
\* tokenizer runs, the sample only when generate samples
RelevantEnvs(gen_params) ==
  {Env(l, "none", 12, DefaultSample) :
      l \in (IF model # None /\ tokenizer # None THEN {} ELSE LoadOutcomes \ {"ok"})}
  \cup {Env("ok", f, 12, DefaultSample) : f \in {"template", "tokenize"}}
  \cup (IF ConfigTypeError(gen_params)
        THEN {Env("ok", "none", n, DefaultSample) : n \in TokenCounts}
        ELSE {Env("ok", "generate", n, DefaultSample) : n \in TokenCounts}
             \cup {Env("ok", f, n, s) :
                     f \in {"none", "decode"}, n \in TokenCounts,
                     s \in SamplesFor(gen_params)})

\* every failure mapped to the generic status
FailureStatusGeneric(load_raised) == 500

\* the status of the HTTPException: 503 from the handler of the lazy load,
\* 500 from the handler of the try block
FailureStatus(load_raised) == IF load_raised THEN 503 ELSE 500

\* the lazy load trigger, never taken
NeedLoadNever == FALSE

\* the lazy load trigger of _generate_response
NeedLoad == model = None \/ tokenizer = None

_generate_response(op, system_prompt_base, user_content, history_list, gen_params, profile_data, env) ==
  LET r == IF NeedLoad
           THEN load_model_and_tokenizer(args.precision, args.cache_dir, env.load)
           ELSE [model |-> model, tokenizer |-> tokenizer, device |-> device,
                 model_id_loaded |-> model_id_loaded, raised |-> FALSE,
                 tokenizer_loaded |-> FALSE, weights_loaded |-> FALSE]
      g0 == [NoGen EXCEPT !.load_called = NeedLoad]
      parts == ProfileParts(profile_data)
      messages == Messages(SystemPrompt(system_prompt_base, profile_data),
                           history_list, user_content)
      g1 == [g0 EXCEPT !.profile_parts = parts, !.messages = messages]
      input_length == InputLength(env.ntok)
      g2 == [g1 EXCEPT !.prompt_tokens = {env.ntok}, !.input_length = {input_length}]
      config == GenerationConfig(gen_params)
      g3 == [g2 EXCEPT !.generation_config = {config}]
      outputs == Generate(input_length, config, env.sample)
      g4 == [g3 EXCEPT !.generate_called = TRUE, !.outputs = outputs]
      answer == Decode(NewTokens(outputs, input_length))
      Fail(stage, g) ==
        /\ resp' = [op |-> op, status |-> FailureStatus(stage = "load"),
                    body |-> [detail |-> IF stage = "load"
                                         THEN "Model service temporarily unavailable"
                                         ELSE "Error generating response"]]
        /\ gen' = [g EXCEPT !.failure = stage]
  IN  /\ gen_called' = TRUE
      /\ gen_past_load' = (gen_past_load \/ ~r.raised)
      /\ ApplyLoad(r)
      /\ UNCHANGED <<args, cuda, started>>
      /\ CASE r.raised -> Fail("load", g0)
           [] ~r.raised /\ (env.fail = "template" \/ r.tokenizer = None) ->
                Fail("template", g1)
           [] ~r.raised /\ r.tokenizer # None /\ env.fail = "tokenize" ->
                Fail("tokenize", g1)
           [] ~r.raised /\ r.tokenizer # None /\ env.fail \notin {"template", "tokenize"}
              /\ ConfigTypeError(gen_params) ->
                Fail("config", g2)
           [] ~r.raised /\ r.tokenizer # None /\ env.fail = "generate"
              /\ ~ConfigTypeError(gen_params) ->
                Fail("generate", g3)
           [] ~r.raised /\ r.tokenizer # None /\ env.fail = "decode"
              /\ ~ConfigTypeError(gen_params) ->
                Fail("decode", g4)
           [] OTHER ->
                /\ resp' = [op |-> op, status |-> 200, body |-> [answer |-> answer]]
                /\ gen' = g4

\* ------------------------------------------------------- the endpoints
\* request bodies: the prompt is required, the rest has defaults
GenParams == [max_new_tokens : {{1}, {MaxNewTokens}},
              temperature : {None, {-1}, {0}, {7}},
              top_p : {None, {9}, {10}, {11}}]

Prompts == {None, {"question"}}

\* schema validation lets a body without prompt through
MissingPromptAccepted(body) == FALSE

\* schema validation of the body: prompt is a required field
MissingPrompt(body) == body.prompt = None

ValidationError(op) ==
  /\ resp' = [op |-> op, status |-> 422, body |-> [detail |-> "Field required"]]
  /\ gen' = NoGen
  /\ UNCHANGED <<args, cuda, started, session, weight_loads, gen_called, gen_past_load>>

\* the prompt a handler reads from a validated body
PromptOf(body) == IF body.prompt = None THEN "" ELSE TheValue(body.prompt)

\* POST /chat
chat(body, env) ==
  /\ started
  /\ resp = Idle
  /\ request' = body
  /\ IF MissingPrompt(body)
     THEN ValidationError("chat")
     ELSE _generate_response("chat", CHAT_SYSTEM_PROMPT, PromptOf(body),
                             HistoryDump(body.history),
                             body.gen_params, body.user_profile, env)

\* POST /emergency_assessment
emergency_assessment(body, env) ==
  /\ started
  /\ resp = Idle
  /\ request' = body
  /\ IF MissingPrompt(body)
     THEN ValidationError("emergency_assessment")
     ELSE _generate_response("emergency_assessment", EMERGENCY_SYSTEM_PROMPT,
                             PromptOf(body), <<>>,
                             body.gen_params, body.user_profile, env)

\* a direct call of load_model_and_tokenizer with arguments of the caller's
\* choice; resp records the arguments and the session the call found
LoadCall(precision, cache_dir, outcome) ==
  LET r == load_model_and_tokenizer(precision, cache_dir, outcome)
  IN  /\ resp = Idle
      /\ ApplyLoad(r)
      /\ resp' = [op |-> "load_model_and_tokenizer", status |-> 0,
                  body |-> [precision |-> LoadConfig(precision, cache_dir).precision,
                            found |-> model, raised |-> r.raised,
                            tokenizer_loaded |-> r.tokenizer_loaded,
                            weights_loaded |-> r.weights_loaded]]
      /\ gen' = NoGen
      /\ UNCHANGED <<args, cuda, started, gen_called, gen_past_load, request>>

\* ------------------------------------------------- lifecycle requests
ChatRequests == [prompt : Prompts, history : {<<>>}, user_profile : {None},
                 gen_params : GenParams]

EmergencyRequests == [prompt : Prompts, user_profile : {None}, gen_params : GenParams]

\* ---------------------------------------------------- prompt requests
MaxProfileFields == 2

FieldValues(f) ==
  CASE f = "age" -> {0, 30}
    [] f = "gender" -> {"", "female"}
    [] f = "conditions" -> {<<>>, <<"asthma", "diabetes">>}
    [] f = "allergies" -> {<<"peanuts">>}
    [] f = "medications" -> {<<"aspirin">>}
    [] f = "name" -> {"Ann"}
    [] f = "weight_kg" -> {70}
    [] f = "height_cm" -> {170}
    [] OTHER -> {"O+"}

Opt(f) == {None} \cup {{v} : v \in FieldValues(f)}

FieldsSet(p) == {f \in ProfileFields : p[f] # None}

Profiles ==
  {p \in [age : Opt("age"), gender : Opt("gender"), conditions : Opt("conditions"),
          allergies : Opt("allergies"), medications : Opt("medications"),
          name : Opt("name"), weight_kg : Opt("weight_kg"),
          height_cm : Opt("height_cm"), blood_type : Opt("blood_type")] :
     Cardinality(FieldsSet(p)) <= MaxProfileFields}

UserProfiles == {None} \cup {{p} : p \in Profiles}

DefaultParams == [max_new_tokens |-> {1}, temperature |-> {7}, top_p |-> {9}]

PromptChatRequests == [prompt : Prompts, history : Histories,
                       user_profile : UserProfiles, gen_params : {DefaultParams}]

PromptEmergencyRequests == [prompt : Prompts, user_profile : UserProfiles,
                            gen_params : {DefaultParams}]

PromptEnvs(gen_params) ==
  {e \in RelevantEnvs(gen_params) : e.fail = "none" /\ e.ntok = 12}

DefaultArgs == {a \in CliArgs : a.precision = "4-bit" /\ a.cache_dir = None}

InitWith(argset) ==
  /\ args \in argset
  /\ cuda \in BOOLEAN
  /\ started = FALSE
  /\ model = None
  /\ tokenizer = None
  /\ device = None
  /\ model_id_loaded = None
  /\ weight_loads = 0
  /\ gen_called = FALSE
  /\ gen_past_load = FALSE
  /\ request = NoRequest
  /\ resp = Idle
  /\ gen = NoGen

Init == InitWith(CliArgs)

Next ==
  \/ startup_event
  \/ health_check
  \/ deliver
  \/ /\ resp = Idle
     /\ \E body \in ChatRequests :
          \E env \in RelevantEnvs(body.gen_params) : chat(body, env)
  \/ /\ resp = Idle
     /\ \E body \in EmergencyRequests :
          \E env \in RelevantEnvs(body.gen_params) : emergency_assessment(body, env)

Spec == Init /\ [][Next]_vars

\* the program under direct calls of the loader
NextLoader ==
  \/ Next
  \/ /\ resp = Idle
     /\ \E precision \in Precisions, cache_dir \in CacheDirs, outcome \in LoadOutcomes :
          LoadCall(precision, cache_dir, outcome)

SpecLoader == Init /\ [][NextLoader]_vars

\* the program under requests that vary the profile and the history
InitPrompt == InitWith(DefaultArgs)

NextPrompt ==
  \/ startup_event
  \/ health_check
  \/ deliver
  \/ /\ resp = Idle
     /\ \E body \in PromptChatRequests :
          \E env \in PromptEnvs(body.gen_params) : chat(body, env)
  \/ /\ resp = Idle
     /\ \E body \in PromptEmergencyRequests :
          \E env \in PromptEnvs(body.gen_params) : emergency_assessment(body, env)

SpecPrompt == InitPrompt /\ [][NextPrompt]_vars

\* ================================================================ claims
GenOps == {"chat", "emergency_assessment"}

\* C1 as stated: a health response reports "loaded" exactly when a
\* generation call (POST /chat or POST /emergency_assessment) has been made
C1_AsStated ==
  resp.op = "health" => (resp.body.model_status = "loaded" <=> gen_called)

\* C1 as amended: a health response reports "loaded" exactly when a load of
\* the weights has succeeded; without preload that is "not loaded" before any
\* generation call, and "loaded" once a generation call got past its lazy
\* load (any answer but 503)
C1_HealthFollowsLoad ==
  resp.op = "health" =>
    /\ resp.body.model_status = "loaded" <=> weight_loads >= 1
    /\ (~args.preload /\ ~gen_called) => resp.body.model_status = "not loaded"
    /\ gen_past_load => resp.body.model_status = "loaded"

C1_Witness ==
  /\ resp.op = "health"
  /\ ~args.preload
  /\ gen_past_load
  /\ resp.body.model_status = "loaded"

\* C2: a generation request without prompt ends in the validation error, with
\* no load, no prompt building, no generate call and the session unchanged
C2_MissingPromptRejected ==
  [][(resp = Idle /\ resp'.op \in GenOps /\ request'.prompt = None) =>
       /\ resp'.status = 422
       /\ gen' = NoGen
       /\ UNCHANGED <<model, tokenizer, device, model_id_loaded, weight_loads>>]_vars

C2_Witness ==
  /\ resp.op \in GenOps
  /\ request.prompt = None
  /\ resp.status = 422
  /\ model # None

\* C3: generate runs without sampling, and without temperature and top_p in
\* its configuration, exactly when temperature <= 0 and top_p >= 1; otherwise
\* it samples with the request's temperature and top_p; without sampling the
\* output is the one greedy continuation of the input
C3_DecodingPolicy ==
  gen.generate_called =>
    LET c == TheValue(gen.generation_config)
        t == request.gen_params.temperature
        p == request.gen_params.top_p
        greedy == /\ t # None /\ p # None
                  /\ \A tv \in t : tv <= 0
                  /\ \A pv \in p : pv >= 10
    IN  /\ c.do_sample = ~greedy
        /\ greedy => DOMAIN c \cap {"temperature", "top_p"} = {}
        /\ ~greedy => (c.temperature = t /\ c.top_p = p)
        /\ greedy => gen.outputs =
                       <<[kind |-> "input", n |-> TheValue(gen.input_length)],
                         [kind |-> "argmax", n |-> TheValue(c.max_new_tokens)]>>

C3_Witness ==
  /\ gen.generate_called
  /\ request.gen_params.temperature = {0}
  /\ request.gen_params.top_p = {10}
  /\ ~TheValue(gen.generation_config).do_sample
  /\ resp.status = 200

\* the profile of the request being answered, every field null if none came
ProfileOf(body) ==
  IF body.user_profile = None
  THEN [f \in ProfileFields |-> None]
  ELSE TheValue(body.user_profile)

\* a field is present and non-empty: set, and not "" or []
PresentNonEmpty(profile, f) ==
  /\ profile[f] # None
  /\ f \in {"gender", "name", "blood_type"} => profile[f] # {""}
  /\ f \in {"conditions", "allergies", "medications"} => profile[f] # {<<>>}

C5_MessageSequence ==
  (resp.op \in GenOps /\ gen.messages # <<>>) =>
    LET m == gen.messages
        h == IF resp.op = "chat" THEN request.history ELSE <<>>
    IN  /\ Len(m) = Len(h) + 2
        /\ resp.op = "emergency_assessment" => Len(m) = 2
        /\ m[1].role = "system"
        /\ \A i \in 1..Len(h) :
             m[i + 1].role = h[i].role /\ m[i + 1].content = h[i].content
        /\ m[Len(m)] = [role |-> "user", content |-> TheValue(request.prompt)]

C5_Witness ==
  /\ resp.op = "chat"
  /\ Len(request.history) = MaxHistory
  /\ Len(gen.messages) = MaxHistory + 2
  /\ request.history[1].role # request.history[2].role
  /\ resp.status = 200

\* C6: once the model is loaded, no step loads a tokenizer or weights or
\* changes model, tokenizer, device or model_id_loaded, whatever precision or
\* cache directory the loader is called with; the weights are loaded at most
\* once
C6_LoadedIsFinal ==
  [][(model # None /\ model_id_loaded = {HARDCODED_MODEL_ID}) =>
       /\ UNCHANGED <<model, tokenizer, device, model_id_loaded, weight_loads>>
       /\ weight_loads' <= 1
       /\ ~gen'.load_called
       /\ (resp = Idle /\ resp'.op = "load_model_and_tokenizer") =>
            (~resp'.body.tokenizer_loaded /\ ~resp'.body.weights_loaded
             /\ ~resp'.body.raised)]_vars

C6_Witness ==
  /\ resp.op = "load_model_and_tokenizer"
  /\ resp.body.found # None
  /\ resp.body.precision # TheValue(resp.body.found).precision
  /\ weight_loads = 1

\* C7 as stated: a call of the loader that finds a session loaded with
\* another precision than the (effective) one it is asked for loads the
\* weights again, and the session then has the precision asked for
C7_AsStated ==
  (/\ resp.op = "load_model_and_tokenizer"
   /\ resp.body.found # None
   /\ resp.body.precision # TheValue(resp.body.found).precision) =>
    /\ resp.body.weights_loaded
    /\ model # None
    /\ \A m \in model : m.precision = resp.body.precision

\* C8: a failed lazy load gives 503 with nothing built or generated; a
\* failure in templating, tokenizing, configuring, generating or decoding
\* gives 500, with the model available; an answer is in the body exactly
\* when the status is 200
C8_FailureStatus ==
  resp.op \in GenOps =>
    /\ resp.status \in {200, 422, 500, 503}
    /\ resp.status = 503 <=> gen.failure = "load"
    /\ resp.status = 503 =>
         /\ gen.load_called
         /\ gen.profile_parts = <<>> /\ gen.messages = <<>>
         /\ gen.input_length = None /\ gen.generation_config = None
         /\ ~gen.generate_called
    /\ resp.status = 500 <=>
         gen.failure \in {"template", "tokenize", "config", "generate", "decode"}
    /\ resp.status = 500 => (model # None /\ tokenizer # None)
    /\ resp.status = 200 =>
         (gen.failure = "none" /\ gen.generate_called /\ model # None)
    /\ "answer" \in DOMAIN resp.body <=> resp.status = 200

C8_Witness ==
  /\ resp.op \in GenOps
  /\ resp.status = 503
  /\ gen.load_called
  /\ model = None

\* C9: the tokenizer call never rejects a prompt for its size: the input of
\* generate has min(token count, 4096) tokens, and the answer is decoded from
\* the tokens of the output after that many
C9_Truncation ==
  (resp.op \in GenOps /\ gen.input_length # None) =>
    LET n == TheValue(gen.prompt_tokens)
        k == TheValue(gen.input_length)
    IN  /\ k = IF n <= 4096 THEN n ELSE 4096
        /\ gen.failure # "tokenize"
        /\ gen.generate_called =>
             (gen.outputs[1] = [kind |-> "input", n |-> k] /\ Len(gen.outputs) >= 2)
        /\ resp.status = 200 =>
             /\ resp.body.answer = <<gen.outputs[2]>>
             /\ gen.outputs[2].kind \notin {"input", "eos"}

C9_Witness ==
  /\ resp.op \in GenOps
  /\ gen.prompt_tokens = {MaxLength + 1}
  /\ gen.input_length = {MaxLength}
  /\ resp.status = 200

\* C10: GET /health loads nothing and leaves the session as it is; it
\* reports "loaded" with model_id_loaded exactly when model and tokenizer are
\* both set, and "not loaded" with "None" otherwise
C10_HealthIsPassive ==
  [][(resp = Idle /\ resp'.op = "health") =>
       /\ UNCHANGED <<model, tokenizer, device, model_id_loaded, weight_loads>>
       /\ ~gen'.load_called
       /\ resp'.status = 200
       /\ resp'.body.status = "healthy"
       /\ IF model # None /\ tokenizer # None
          THEN resp'.body.model_status = "loaded"
               /\ resp'.body.model_id = model_id_loaded
          ELSE resp'.body.model_status = "not loaded"
               /\ resp'.body.model_id = {"None"}]_vars

C10_Witness ==
  /\ resp.op = "health"
  /\ resp.body.model_status = "not loaded"
  /\ tokenizer # None

\* C11: the weights in the session were loaded with 4-bit quantization
\* exactly when 4-bit was requested and CUDA is available, with float16
\* exactly when 16-bit was requested or 4-bit was requested without CUDA,
\* and with the default (32-bit) otherwise; never with quantization when
\* the device is the CPU
C11_EffectivePrecision ==
  model # None =>
    \A m \in model :
      /\ m.quantization_config # None <=> (args.precision = "4-bit" /\ cuda)
      /\ m.quantization_config # None => m.torch_dtype = None
      /\ m.torch_dtype = {"float16"} <=>
           (args.precision = "16-bit" \/ (args.precision = "4-bit" /\ ~cuda))
      /\ (m.quantization_config = None /\ m.torch_dtype = None) <=>
           args.precision = "32-bit"
      /\ m.precision = IF args.precision = "4-bit" /\ ~cuda THEN "16-bit"
                       ELSE args.precision
      /\ device = {IF cuda THEN "cuda" ELSE "cpu"}
      /\ device = {"cpu"} => m.quantization_config = None

C11_Witness ==
  /\ model # None
  /\ args.precision = "4-bit"
  /\ ~cuda
  /\ device = {"cpu"}
  /\ \A m \in model : m.torch_dtype = {"float16"} /\ m.quantization_config = None

\* C12 as stated: between the handlers the session is all or nothing: model,
\* tokenizer and model_id_loaded are all unset, or all set with
\* model_id_loaded the fixed model id; and a generation request answered 503
\* (its load failed) leaves all three unset
C12_AsStated ==
  /\ \/ (model = None /\ tokenizer = None /\ model_id_loaded = None)
     \/ (model # None /\ tokenizer # None /\ model_id_loaded = {HARDCODED_MODEL_ID})
  /\ (resp.op \in GenOps /\ resp.status = 503) =>
       (model = None /\ tokenizer = None /\ model_id_loaded = None)
====
